---- MODULE Spec2Model ----
(***************************************************************************)
(* Model of src/query.py: the lazily evaluated SQL query builder `Query`.  *)
(*                                                                         *)
(* A Query object is modelled by its instance dictionary (the attributes   *)
(* __init__ actually sets); reading an attribute that was never set is an  *)
(* AttributeError, reading an undefined global is a NameError.  Every      *)
(* method is an operator that returns an outcome: a value, or the          *)
(* exception the method raises.                                            *)
(***************************************************************************)
EXTENDS Integers, Sequences, FiniteSets, TLC

\* Bounds of the exploration.
MaxNodes == 3
MaxBuilds == 2

VARIABLES
    heap,    \* the Query objects allocated so far; heap[i] is the __dict__ of object i
    calls,   \* calls[i]: the call that allocated object i (history, not program state)
    builds   \* the build() calls made so far, each with its outcome

vars == <<heap, calls, builds>>

----------------------------------------------------------------------------
\* Python values.

None == [t |-> "None"]
Str(s) == [t |-> "str", v |-> s]
PyInt(i) == [t |-> "int", v |-> i]
Ref(i) == [t |-> "Query", id |-> i]
Func(n) == [t |-> "function", name |-> n]
Tuple(s) == [t |-> "tuple", v |-> s]
Dict(s) == [t |-> "dict", v |-> s]

\* Outcome of a call: a returned value or a raised exception.
Ok(v) == [ok |-> TRUE, v |-> v]
Raise(e) == [ok |-> FALSE, err |-> e]

\* bool(x) of the values a table argument takes.
Truthy(x) == x # None /\ x # Str("")

\* str(x), as '{}'.format(x) renders it.
PyStr(x) == IF x.t = "int" THEN ToString(x.v) ELSE x.v

\* d.get(k, None) on a keyword dictionary (a function from names to values).
DictGet(d, k) == IF k \in DOMAIN d THEN d[k] ELSE None

\* obj.name on a Query object: AttributeError unless __init__ set it.
GetAttr(hp, ref, name) ==
    IF name \in DOMAIN hp[ref.id] THEN Ok(hp[ref.id][name])
    ELSE Raise("AttributeError")

\* sep.join(parts)
RECURSIVE Join(_, _)
Join(sep, parts) ==
    IF parts = <<>> THEN ""
    ELSE IF Len(parts) = 1 THEN parts[1]
    ELSE parts[1] \o sep \o Join(sep, Tail(parts))

----------------------------------------------------------------------------
\* Query.__init__(self, table=None, **_kwargs): the instance dictionary it leaves.
\* `func` is set only for a truthy table; the table itself is not stored.
Query__init__(table, kw) ==
    LET base == [a \in {"_backref", "_func", "_args", "_kwargs"} |-> DictGet(kw, a)]
    IN  IF Truthy(table) THEN ("func" :> Func("_table")) @@ base ELSE base

\* Query.select(self, *args): Query(backref=self, func=Query._select, args=args)
select(self, args) ==
    Query__init__(None, [backref |-> self, func |-> Func("_select"), args |-> Tuple(args)])

\* Query.filter(self, **kwargs): Query(backref=self, func=Query._filter, kwargs=kwargs)
filter(self, kwargs) ==
    Query__init__(None, [backref |-> self, func |-> Func("_filter"), kwargs |-> Dict(kwargs)])

\* Query.order_by(self, *args): Query(backref=self, func=Query._order_by, args=args)
order_by(self, args) ==
    Query__init__(None, [backref |-> self, func |-> Func("_order_by"), args |-> Tuple(args)])

----------------------------------------------------------------------------
\* Query.build and the helpers it calls.

\* A module-level name read inside a method: NameError unless the module binds it.
\* query.py binds the class Query and the imported groupby, nothing else.
Global(name) == IF name \in {"Query", "groupby"} THEN Ok(name) ELSE Raise("NameError")

\* Query._backrefs(back), consumed to the end: the nodes it yields, or the
\* exception that ends the iteration.  The link it follows is `back.backref`.
RECURSIVE _backrefs(_, _)
_backrefs(hp, back) ==
    IF back = None THEN Ok(<<>>)
    ELSE LET nxt == GetAttr(hp, back, "backref") IN
         IF ~nxt.ok THEN nxt
         ELSE LET rest == _backrefs(hp, nxt.v) IN
              IF ~rest.ok THEN rest ELSE Ok(<<back>> \o rest.v)

\* Query._args_get(refs): every ref.args, flattened in order.
RECURSIVE _args_get(_, _)
_args_get(hp, refs) ==
    IF refs = <<>> THEN Ok(<<>>)
    ELSE LET a == GetAttr(hp, refs[1], "args") IN
         IF ~a.ok THEN a
         ELSE LET rest == _args_get(hp, Tail(refs)) IN
              IF ~rest.ok THEN rest ELSE Ok(a.v.v \o rest.v)

\* Query._kwargs_get(refs): every (key, value) of every ref.kwargs, in order.
RECURSIVE _kwargs_get(_, _)
_kwargs_get(hp, refs) ==
    IF refs = <<>> THEN Ok(<<>>)
    ELSE LET k == GetAttr(hp, refs[1], "kwargs") IN
         IF ~k.ok THEN k
         ELSE LET rest == _kwargs_get(hp, Tail(refs)) IN
              IF ~rest.ok THEN rest ELSE Ok(k.v.v \o rest.v)

\* Query._table(refs): next(refs), then its `table` attribute.
_table(hp, refs) ==
    LET t == GetAttr(hp, refs[1], "table") IN
    IF ~t.ok THEN t ELSE Ok(PyStr(t.v))

\* Query._select(refs): the columns come from StaticQuery._args_get.
_select(hp, refs) ==
    IF ~Global("StaticQuery").ok THEN Global("StaticQuery")
    ELSE LET selects == _args_get(hp, refs) IN
         IF ~selects.ok THEN selects
         ELSE Ok("SELECT " \o Join(", ", selects.v) \o " FROM")

\* Query._filter(refs): StaticQuery._kwargs_get gives a generator, and the
\* method then calls .items() on it, which a generator does not have.
_filter(hp, refs) ==
    IF ~Global("StaticQuery").ok THEN Global("StaticQuery")
    ELSE Raise("AttributeError")

\* Query._order_by(refs)
_order_by(hp, refs) ==
    IF ~Global("StaticQuery").ok THEN Global("StaticQuery")
    ELSE LET selects == _args_get(hp, refs) IN
         IF ~selects.ok THEN selects
         ELSE Ok("ORDER BY " \o Join(", ", selects.v))

\* getattr(Query, key.__name__)(section)
Render(hp, name, section) ==
    CASE name = "_table" -> _table(hp, section)
      [] name = "_select" -> _select(hp, section)
      [] name = "_filter" -> _filter(hp, section)
      [] name = "_order_by" -> _order_by(hp, section)

\* id(f) of the four clause functions: distinct addresses in some fixed order.
\* The only function __init__ ever stores in `func` is Query._table, so every key
\* of a sort that succeeds is the same address and the order chosen here is
\* never observed.
FuncAddr ==
    CHOOSE m \in [{"_table", "_select", "_filter", "_order_by"} -> 1..4] :
        \A a, b \in DOMAIN m : a # b => m[a] # m[b]

\* the sort key of build: id(b.func)
SortKey(hp, b) ==
    LET f == GetAttr(hp, b, "func") IN
    IF ~f.ok THEN f ELSE Ok(FuncAddr[f.v.name])

\* list.insert keeping equal keys in arrival order (sorted() is stable)
RECURSIVE InsertSorted(_, _, _)
InsertSorted(hp, b, done) ==
    IF done = <<>> THEN <<b>>
    ELSE IF SortKey(hp, b).v < SortKey(hp, Head(done)).v THEN <<b>> \o done
    ELSE <<Head(done)>> \o InsertSorted(hp, b, Tail(done))

RECURSIVE SortRefs(_, _, _)
SortRefs(hp, todo, done) ==
    IF todo = <<>> THEN done
    ELSE SortRefs(hp, Tail(todo), InsertSorted(hp, Head(todo), done))

\* sorted(refs, key=lambda b: id(b.func)): the keys are computed first, one per
\* element in order, and the first that raises ends the call.
sorted(hp, refs) ==
    LET bad == {i \in 1..Len(refs) : ~SortKey(hp, refs[i]).ok} IN
    IF bad # {} THEN SortKey(hp, refs[CHOOSE i \in bad : \A j \in bad : i <= j])
    ELSE Ok(SortRefs(hp, refs, <<>>))

\* itertools.groupby(refs, lambda k: k.func): runs of consecutive equal keys
RECURSIVE groupby(_, _)
groupby(hp, refs) ==
    IF refs = <<>> THEN <<>>
    ELSE LET key == hp[refs[1].id].func
             rest == groupby(hp, Tail(refs))
         IN  IF rest # <<>> /\ rest[1].key = key
             THEN <<[key |-> key, section |-> <<refs[1]>> \o rest[1].section]>> \o Tail(rest)
             ELSE <<[key |-> key, section |-> <<refs[1]>>]>> \o rest

\* key.__name__[1:]
Strip1(name) ==
    CASE name = "_table" -> "table"
      [] name = "_select" -> "select"
      [] name = "_filter" -> "filter"
      [] name = "_order_by" -> "order_by"

\* the loop of build: kwargs[key.__name__[1:]] = getattr(Query, key.__name__)(section)
RECURSIVE RenderGroups(_, _, _)
RenderGroups(hp, groups, kwargs) ==
    IF groups = <<>> THEN Ok(kwargs)
    ELSE LET g == Head(groups)
             r == Render(hp, g.key.name, g.section)
         IN  IF ~r.ok THEN r
             ELSE RenderGroups(hp, Tail(groups), (Strip1(g.key.name) :> r.v) @@ kwargs)

\* build, lines 74-79: traverse, sort, group, render each group into kwargs
build_sections(hp, self) ==
    LET refs == _backrefs(hp, self) IN
    IF ~refs.ok THEN refs
    ELSE LET backrefs == sorted(hp, refs.v) IN
         IF ~backrefs.ok THEN backrefs
         ELSE RenderGroups(hp, groupby(hp, backrefs.v), <<>>)

\* kwargs.get(k) is truthy
HasClause(kwargs, k) == k \in DOMAIN kwargs /\ kwargs[k] # ""

\* build, lines 81-88: the template and result.format(**kwargs); a field the
\* template names and kwargs lacks is a KeyError, the first field first.
build_format(kwargs) ==
    IF "select" \notin DOMAIN kwargs \/ "table" \notin DOMAIN kwargs THEN Raise("KeyError")
    ELSE Ok(kwargs["select"] \o " " \o kwargs["table"]
            \o (IF HasClause(kwargs, "filter") THEN " " \o kwargs["filter"] ELSE "")
            \o (IF HasClause(kwargs, "order_by") THEN " " \o kwargs["order_by"] ELSE "")
            \o ";")

\* build with the failure of the section pass swallowed: the bare terminator
\* is returned instead of the exception
build_swallow(hp, self) ==
    LET kwargs == build_sections(hp, self) IN
    IF ~kwargs.ok THEN Ok(";") ELSE build_format(kwargs.v)

\* Query.build(self)
build(hp, self) ==
    LET kwargs == build_sections(hp, self) IN
    IF ~kwargs.ok THEN kwargs ELSE build_format(kwargs.v)

----------------------------------------------------------------------------
\* The arguments callers pass.

Tables == {Str("T"), None}
SelectArgs == {<<"a">>, <<"b">>, <<"a", "b">>}
OrderArgs == {<<"a">>}
FilterKwargs ==
    { <<(<<"x", PyInt(1)>>)>>,
      <<(<<"name", Str("Bill")>>), (<<"x", PyInt(2)>>)>> }

Handles == 1..Len(heap)

Init ==
    /\ heap = <<>>
    /\ calls = <<>>
    /\ builds = <<>>

\* Query(table) / Query()
New(table) ==
    /\ Len(heap) < MaxNodes
    /\ heap' = Append(heap, Query__init__(table, <<>>))
    /\ calls' = Append(calls, [op |-> "new", recv |-> None, arg |-> table])
    /\ UNCHANGED builds

\* Query(table, _backref=back): the constructor called with the keyword it reads
Construct(table, back) ==
    /\ Len(heap) < MaxNodes
    /\ heap' = Append(heap, Query__init__(table, [_backref |-> Ref(back)]))
    /\ calls' = Append(calls, [op |-> "init", recv |-> Ref(back), arg |-> table])
    /\ UNCHANGED builds

\* h.select(*args)
Select(h, args) ==
    /\ Len(heap) < MaxNodes
    /\ heap' = Append(heap, select(Ref(h), args))
    /\ calls' = Append(calls, [op |-> "select", recv |-> Ref(h), arg |-> Tuple(args)])
    /\ UNCHANGED builds

\* h.filter(**kwargs)
Filter(h, kwargs) ==
    /\ Len(heap) < MaxNodes
    /\ heap' = Append(heap, filter(Ref(h), kwargs))
    /\ calls' = Append(calls, [op |-> "filter", recv |-> Ref(h), arg |-> Dict(kwargs)])
    /\ UNCHANGED builds

\* h.order_by(*args)
OrderBy(h, args) ==
    /\ Len(heap) < MaxNodes
    /\ heap' = Append(heap, order_by(Ref(h), args))
    /\ calls' = Append(calls, [op |-> "order_by", recv |-> Ref(h), arg |-> Tuple(args)])
    /\ UNCHANGED builds

\* h.build(): the outcome is recorded with the number of objects that existed
Build(h) ==
    /\ Len(builds) < MaxBuilds
    /\ builds' = Append(builds, [h |-> h, at |-> Len(heap), res |-> build(heap, Ref(h))])
    /\ UNCHANGED <<heap, calls>>

Next ==
    \/ \E table \in Tables : New(table)
    \/ \E back \in Handles : Construct(Str("T"), back)
    \/ \E h \in Handles, args \in SelectArgs : Select(h, args)
    \/ \E h \in Handles, kwargs \in FilterKwargs : Filter(h, kwargs)
    \/ \E h \in Handles, args \in OrderArgs : OrderBy(h, args)
    \/ \E h \in Handles : Build(h)

Spec == Init /\ [][Next]_vars

----------------------------------------------------------------------------
\* What the caller asked for, read from the history of calls.

Fluent == {"select", "filter", "order_by"}

\* the calls that led to handle h, earliest first
RECURSIVE Chain(_)
Chain(h) ==
    IF calls[h].recv = None THEN <<h>> ELSE Append(Chain(calls[h].recv.id), h)

RECURSIVE Reverse(_)
Reverse(s) == IF s = <<>> THEN <<>> ELSE Append(Reverse(Tail(s)), Head(s))

\* the nodes of the chain that bind a table
TableNodes(h) ==
    {k \in 1..Len(Chain(h)) :
        calls[Chain(h)[k]].op \in {"new", "init"} /\ Truthy(calls[Chain(h)[k]].arg)}

\* new(T) followed by fluent calls only
WellFormed(h) ==
    /\ calls[Chain(h)[1]].op = "new"
    /\ TableNodes(h) = {1}
    /\ \A k \in 2..Len(Chain(h)) : calls[Chain(h)[k]].op \in Fluent

Malformed(h) == Cardinality(TableNodes(h)) # 1

TableName(h) == calls[Chain(h)[1]].arg.v

\* the arguments of every call of kind op on the chain, in the order issued
RECURSIVE ArgsOf(_, _)
ArgsOf(chain, op) ==
    IF chain = <<>> THEN <<>>
    ELSE (IF calls[Head(chain)].op = op THEN calls[Head(chain)].arg.v ELSE <<>>)
         \o ArgsOf(Tail(chain), op)

CallCount(h, op) == Cardinality({k \in 1..Len(Chain(h)) : calls[Chain(h)[k]].op = op})

\* key/value overlay in call order: first-seen key order, last value wins
RECURSIVE Overlay(_, _)
Overlay(pairs, acc) ==
    IF pairs = <<>> THEN acc
    ELSE LET p == Head(pairs)
             at == {i \in 1..Len(acc) : acc[i][1] = p[1]}
         IN  Overlay(Tail(pairs),
                     IF at = {} THEN Append(acc, p)
                     ELSE [i \in 1..Len(acc) |-> IF i \in at THEN p ELSE acc[i]])

RECURSIVE Conditions(_)
Conditions(pairs) ==
    IF pairs = <<>> THEN <<>>
    ELSE <<Head(pairs)[1] \o "='" \o PyStr(Head(pairs)[2]) \o "'">> \o Conditions(Tail(pairs))

WantSelect(h) == "SELECT " \o Join(", ", ArgsOf(Chain(h), "select")) \o " FROM"
WantOrderBy(h) == "ORDER BY " \o Join(", ", ArgsOf(Chain(h), "order_by"))
WantFilter(h) == "WHERE " \o Join(" AND ", Conditions(Overlay(ArgsOf(Chain(h), "filter"), <<>>)))

\* the statement the documentation describes for a well-formed chain
WantSQL(h) ==
    WantSelect(h) \o " " \o TableName(h)
    \o (IF CallCount(h, "filter") > 0 THEN " " \o WantFilter(h) ELSE "")
    \o (IF CallCount(h, "order_by") > 0 THEN " " \o WantOrderBy(h) ELSE "")
    \o ";"

BuildIds == 1..Len(builds)

\* the arguments of each call of kind op on the chain, one entry per call
RECURSIVE CallsOf(_, _)
CallsOf(chain, op) ==
    IF chain = <<>> THEN <<>>
    ELSE (IF calls[Head(chain)].op = op THEN <<calls[Head(chain)].arg>> ELSE <<>>)
         \o CallsOf(Tail(chain), op)

\* two handles whose chains hold the same calls of every kind on the same table
SameCalls(g, h) ==
    /\ TableName(g) = TableName(h)
    /\ \A op \in Fluent : CallsOf(Chain(g), op) = CallsOf(Chain(h), op)

\* a chain the documentation gives a statement for: one table, at least one select
Renderable(h) == WellFormed(h) /\ CallCount(h, "select") > 0

\* the filter calls of the chain collide on some key
KeyCollision(h) ==
    Len(Overlay(ArgsOf(Chain(h), "filter"), <<>>)) < Len(ArgsOf(Chain(h), "filter"))

\* the links actually stored in the objects, followed from h
RECURSIVE StoredChain(_)
StoredChain(h) ==
    IF heap[h]["_backref"] = None THEN <<h>>
    ELSE <<h>> \o StoredChain(heap[h]["_backref"].id)

RefsOf(ids) == [i \in 1..Len(ids) |-> Ref(ids[i])]

\* errors a guard written for the purpose would raise, as opposed to the
\* interpreter's own lookup failures (AttributeError, NameError, KeyError)
DeliberateErrors == {"EmptySelect", "MalformedChain", "ValueError"}

----------------------------------------------------------------------------
\* Claims.

\* C1: every build() of new(T) plus fluent calls with at least one select
\* succeeds, and its SELECT clause lists the columns of all select calls in the
\* order issued (repeats kept); likewise ORDER BY for the order_by calls.
C1_Accumulation ==
    \A k \in BuildIds :
        LET h == builds[k].h
            kw == build_sections(heap, Ref(h))
        IN  Renderable(h) =>
                /\ builds[k].res.ok
                /\ kw.ok
                /\ "select" \in DOMAIN kw.v
                /\ kw.v["select"] = WantSelect(h)
                /\ CallCount(h, "order_by") > 0 =>
                       /\ "order_by" \in DOMAIN kw.v
                       /\ kw.v["order_by"] = WantOrderBy(h)

\* C2: two builds of chains on the same table that hold the same calls of every
\* kind, however interleaved, both return a string and the strings are equal.
C2_OrderIndependence ==
    \A j, k \in BuildIds :
        (Renderable(builds[j].h) /\ Renderable(builds[k].h)
            /\ SameCalls(builds[j].h, builds[k].h)) =>
                /\ builds[j].res.ok
                /\ builds[k].res.ok
                /\ builds[j].res.v = builds[k].res.v

\* C3: when the filter calls of a well-formed chain share a key, the WHERE
\* clause build() renders has one condition per key, in first-seen key order,
\* with the value of the latest call.
C3_FilterLastWriteWins ==
    \A k \in BuildIds :
        LET h == builds[k].h
            kw == build_sections(heap, Ref(h))
        IN  (WellFormed(h) /\ KeyCollision(h)) =>
                /\ kw.ok
                /\ "filter" \in DOMAIN kw.v
                /\ kw.v["filter"] = WantFilter(h)

\* C4: build() of a chain with one table and at least one select returns exactly
\* SELECT <cols> FROM <table>[ WHERE ...][ ORDER BY ...]; with single spaces,
\* quoted values and one final semicolon.
C4_ExactOutput ==
    \A k \in BuildIds :
        Renderable(builds[k].h) => builds[k].res = Ok(WantSQL(builds[k].h))

\* a fluent call on h was made between the two builds
BranchedBetween(h, j, k) ==
    \E n \in Handles :
        /\ builds[j].at < n
        /\ n <= builds[k].at
        /\ calls[n].op \in Fluent
        /\ calls[n].recv = Ref(h)

C5_BuildsAgree ==
    \A j, k \in BuildIds :
        (builds[j].h = builds[k].h /\ Renderable(builds[j].h)
            /\ BranchedBetween(builds[j].h, j, k)) =>
                /\ builds[j].res.ok
                /\ builds[k].res.ok
                /\ builds[j].res.v = builds[k].res.v

\* C5: no step changes an existing object, and build() of a handle succeeds
\* with the same string before and after branches were made from it.
C5_ImmutableBranching ==
    [][(\A i \in Handles : heap'[i] = heap[i]) /\ C5_BuildsAgree']_vars

C6_RepeatAgree ==
    \A j, k \in BuildIds :
        (builds[j].h = builds[k].h /\ Renderable(builds[j].h)) =>
            /\ builds[j].res.ok
            /\ builds[k].res.ok
            /\ builds[j].res.v = builds[k].res.v

\* C6: build() leaves every object as it was, and any two builds of one handle
\* return the same string.
C6_IdempotentRender ==
    [][builds' # builds => (heap' = heap /\ C6_RepeatAgree')]_vars

\* the object records the call that made it
Records(h) ==
    IF calls[h].op = "new"
    THEN /\ heap[h]["_backref"] = None
         /\ "func" \in DOMAIN heap[h]
         /\ \E a \in DOMAIN heap[h] : heap[h][a] = calls[h].arg
    ELSE /\ heap[h]["_backref"] = calls[h].recv
         /\ heap[h]["_func"] = Func("_" \o calls[h].op)
         /\ heap[h][IF calls[h].op = "filter" THEN "_kwargs" ELSE "_args"] = calls[h].arg

\* C7: every handle made by new(T) and fluent calls records its kind, its
\* arguments and its predecessor; the stored chain ends at the root, the only
\* table node, which holds the table name.
C7_ChainInvariant ==
    \A h \in Handles :
        WellFormed(h) =>
            /\ Records(h)
            /\ StoredChain(h) = Reverse(Chain(h))
            /\ {i \in 1..Len(StoredChain(h)) : "func" \in DOMAIN heap[StoredChain(h)[i]]}
                   = {Len(StoredChain(h))}

\* C8: the traversal of a handle made by new(T) and n fluent calls yields the
\* n+1 nodes from the handle back to the root and ends without raising.
C8_TraversalComplete ==
    \A h \in Handles :
        WellFormed(h) => _backrefs(heap, Ref(h)) = Ok(RefsOf(Reverse(Chain(h))))

\* C9: build() of a chain with no table node, or with more than one, raises and
\* returns no statement.
C9_MalformedFatal ==
    \A k \in BuildIds : Malformed(builds[k].h) => ~builds[k].res.ok

\* a chain with two table nodes was built, and the build raised
C9_Witness ==
    \E k \in BuildIds :
        /\ Cardinality(TableNodes(builds[k].h)) > 1
        /\ ~builds[k].res.ok

WantSQLStar(h) ==
    "SELECT * FROM " \o TableName(h)
    \o (IF CallCount(h, "filter") > 0 THEN " " \o WantFilter(h) ELSE "")
    \o (IF CallCount(h, "order_by") > 0 THEN " " \o WantOrderBy(h) ELSE "")
    \o ";"

\* C10: build() of a chain with a table and no select call either returns the
\* statement with SELECT * or raises a deliberate caller error.
C10_EmptySelectPolicy ==
    \A k \in BuildIds :
        LET h == builds[k].h
            res == builds[k].res
        IN  (WellFormed(h) /\ CallCount(h, "select") = 0) =>
                \/ res = Ok(WantSQLStar(h))
                \/ ~res.ok /\ res.err \in DeliberateErrors

====
